---- MODULE Spec2Model ----
(***************************************************************************)
(* Live price widget (LiveStockPrice + useStockWebSocket) and candlestick  *)
(* chart (CandlestickChart) of the marketmind-ai frontend, as state        *)
(* machines.  One React component instance per machine; every handler,     *)
(* effect and timer callback is one action.                                *)
(***************************************************************************)
EXTENDS Integers, Sequences, FiniteSets, TLC

\* ---------------------------------------------------------------- bounds
NumScrips == 2        \* instruments 1..NumScrips; 0 is "no scrip code" (falsy)
MaxSockets == 2       \* io() calls (instrument selections) in one widget life

MaxFetches == 2       \* candle requests the user's actions cause in one chart life
MaxSeconds == 64      \* seconds the chart is watched for
MaxEmits == 3         \* emit calls made through useWebSocket
MaxWeeks == 1         \* weeks the instants handed to isMarketOpen are taken from
MaxTokens == 2        \* pieces a symbol handed to getScripCode is made of
MaxLongSeconds == 122 \* seconds a chart that is left alone is watched for
MaxSends == 3         \* messages the user sends to the chatbot
MaxSearches == 2      \* search requests the search box issues
MaxHistory == 3       \* history entries the browser has behind the present one

\* ------------------------------------------------------ program constants
reconnectionAttempts == 5
reconnectionDelay == 1      \* 1000 ms, in seconds
IstOffsetSec == 19800       \* 5.5 * 60 * 60 seconds
MarketOpenMin == 555        \* 09:15
MarketCloseMin == 930       \* 15:30

\* ------------------------------------------------------------- JS values
JsNull == [t |-> "null"]
Num(n) == [t |-> "num", v |-> n]
Str(n) == [t |-> "str", v |-> n]       \* the non-empty string that spells n

\* JS truthiness of a nullable number-or-string
Truthy(x) == \/ x.t = "str"
             \/ x.t = "num" /\ x.v # 0

\* a || b
Or(a, b) == IF Truthy(a) THEN a ELSE b

\* parseFloat of a number or of a string that spells one
parseFloat(x) == Num(x.v)

Scrips == 1..NumScrips
ScripInputs == 0..NumScrips
Prices == {2}             \* the price a snapshot carries; ticks carry 1 or '2'

VARIABLES
  \* LiveStockPrice
  lspPhase,      \* "new" | "mounted" | "unmounted"
  scripCode,     \* the scripCode prop, 0 when falsy
  snapshot,      \* JsNull or the snapshot object
  currentPrice,  \* JsNull or Num
  loading,
  error,         \* "" (null) or the message
  snapStarted,   \* number of get5paisaSnapshot calls so far
  snapFetches,   \* [id, scrip, status]: the calls in flight, and the newest call's outcome
  \* useStockWebSocket
  liveData,      \* JsNull or the last stock_update payload
  isConnected,
  wsError,       \* "" (null) or the message
  uncaught,      \* an exception has escaped a listener of the socket
  ioCalls,       \* number of io() calls so far; the newest socket is socket ioCalls
  sockets,       \* id -> socket, for the sockets the client has not disconnected
  lastEmit,      \* the newest subscribe_stock / unsubscribe_stock emit call
  openSubs,      \* instruments with a subscribe_stock emitted and no unsubscribe_stock since
  lastTick       \* price of the selected instrument's newest priced tick since it was selected

lspVars == <<lspPhase, scripCode, snapshot, currentPrice, loading, error, snapStarted, snapFetches>>
wsVars == <<liveData, isConnected, wsError, uncaught, ioCalls, sockets, lastEmit, openSubs, lastTick>>

VARIABLES
  \* CandlestickChart
  ccPhase,           \* "new" | "mounted" | "unmounted"
  ccScripCode,       \* the scripCode prop, 0 when falsy
  selectedInterval,
  ccLoading,
  ccError,           \* "" (null) or the message
  lastUpdated,       \* 0 (null), or the id of the fetch whose completion stamped it
  marketOpen,
  countdown,         \* JsNull or Num
  refreshTimer,      \* the ref: a timer id, 0 when null
  countdownTimer,    \* the ref: a timer id, 0 when null
  chartCreated,      \* candleRef / volumeRef / chartRef were set by the init effect
  chartData,         \* what setData last put on the series: JsNull or the fetch
  fetchStarted,      \* number of candle requests issued so far
  candleFetches,     \* the candle requests in flight
  timers,            \* the setInterval timers not yet cleared
  silentIssued,      \* fetchCandles(interval, false) calls made by the running refresh timer
  now                \* wall clock, seconds since the epoch

ccVars == <<ccPhase, ccScripCode, selectedInterval, ccLoading, ccError, lastUpdated, marketOpen,
            countdown, refreshTimer, countdownTimer, chartCreated, chartData, fetchStarted,
            candleFetches, timers, silentIssued, now>>

VARIABLES
  \* useWebSocket
  mwSocket,          \* socketRef.current: "none" (null) | "connecting" | "connected" | "reconnecting"
  mwIsConnected,
  mwEmitted,         \* the emit calls made on the socket, oldest first
  mwRequested,       \* instruments with subscribe() called and no unsubscribe() since
  mwServed           \* instruments the feed serves on the present connection

mwVars == <<mwSocket, mwIsConnected, mwEmitted, mwRequested, mwServed>>

VARIABLES
  \* a call of isMarketOpen
  clockInput,        \* the instant new Date() gives: [week, day, sec] of the IST calendar
  mktResult          \* "none" before the call, then "true" or "false" as returned

mhVars == <<clockInput, mktResult>>

VARIABLES
  \* a call of getScripCode
  lookupSymbol,      \* the symbol argument, as the sequence of its pieces
  lookupApi,         \* what the search endpoint answers: [status, results]
  lookupResult       \* [t |-> "pending"] before the promise settles, then its value

scVars == <<lookupSymbol, lookupApi, lookupResult>>

VARIABLES
  \* the router and the auth token
  location,          \* the path the router matches
  history,           \* the browser's earlier history entries, oldest first
  token              \* localStorage 'token': "none" (null) or the stored token

authVars == <<location, history, token>>

VARIABLES
  \* StockSearchAutocomplete
  sbMounted,         \* the box is on the page
  searchQuery,       \* the input's value, as the sequence of its characters
  suggestions,       \* [search, items]: the search the list came from (0: none) and its length
  isLoading,
  showDropdown,
  debounceTimer,     \* the ref: a timeout id, 0 when null
  timeouts,          \* the setTimeout timers that have neither fired nor been cleared
  searchStarted,     \* number of searchScripCode calls so far
  searches           \* the calls in flight: [id, query, selected]

sbVars == <<sbMounted, searchQuery, suggestions, isLoading, showDropdown, debounceTimer,
            timeouts, searchStarted, searches>>

VARIABLES
  \* Chatbot
  messages,          \* the list: [id, type, content]
  inputValue,
  isTyping,
  replies            \* the bot replies whose timeout has not fired: [id, content]

cbVars == <<messages, inputValue, isTyping, replies>>

vars == <<lspVars, wsVars, ccVars, mwVars, mhVars, scVars, authVars, sbVars, cbVars>>

\* what an action of one component leaves alone
exPrice == <<ccVars, mwVars, mhVars, scVars, authVars, sbVars, cbVars>>
exChart == <<lspVars, wsVars, mwVars, mhVars, scVars, authVars, sbVars, cbVars>>
exManual == <<lspVars, wsVars, ccVars, mhVars, scVars, authVars, sbVars, cbVars>>
exHours == <<lspVars, wsVars, ccVars, mwVars, scVars, authVars, sbVars, cbVars>>
exLookup == <<lspVars, wsVars, ccVars, mwVars, mhVars, authVars, sbVars, cbVars>>
exAuth == <<lspVars, wsVars, ccVars, mwVars, mhVars, scVars, sbVars, cbVars>>
exSearch == <<lspVars, wsVars, ccVars, mwVars, mhVars, scVars, cbVars>>
exChat == <<lspVars, wsVars, ccVars, mwVars, mhVars, scVars, authVars, sbVars>>

\* ------------------------------------------------------------ rendering
\* which branch the widget renders
Display == IF loading THEN "loading"
           ELSE IF error # "" THEN "error"
           ELSE IF snapshot = JsNull THEN "nothing"
           ELSE "price"

priceToShow == Or(currentPrice, snapshot.price)

Badge == IF isConnected THEN "LIVE" ELSE "DELAYED"

\* the controls the error branch of the widget offers: it renders the message alone
ErrorControls == {}

\* ------------------------------------------------------- useStockWebSocket
NewSocket(s) == [scrip |-> s, state |-> "connecting", attempts |-> 0, subscribed |-> FALSE, delay |-> 0]

\* seconds socket.io-client may wait before the next attempt: reconnectionDelay is the
\* base of its backoff, and no reconnectionDelayMax or randomizationFactor is passed
BackoffDelays == {reconnectionDelay, 2 * reconnectionDelay}

\* sockets whose subscription the feed is serving
ActiveSubs == {i \in DOMAIN sockets : sockets[i].state = "connected" /\ sockets[i].subscribed}

\* bug: the cleanup disconnects first and emits on the closed socket
CleanupEmit_AfterDisconnect(old) ==
  IF old = 0 THEN lastEmit
  ELSE [type |-> "unsubscribe_stock", scrip |-> old, sock |-> ioCalls, connected |-> FALSE]

\* the effect's cleanup, for the socket that effect created: emit, then disconnect
CleanupEmit(old) ==
  IF old = 0 THEN lastEmit
  ELSE [type |-> "unsubscribe_stock", scrip |-> old, sock |-> ioCalls,
        connected |-> sockets[ioCalls].state = "connected"]

CleanupOpenSubs(old) == openSubs \ {old}

\* bug: the cleanup forgets socket.disconnect()
CleanupSockets_NoDisconnect(old) == sockets

CleanupSockets(old) ==
  IF old = 0 THEN sockets
  ELSE [i \in DOMAIN sockets \ {ioCalls} |-> sockets[i]]

\* bug: the 'disconnect' handler is not registered
CleanupIsConnected_Stale(old) == isConnected

\* socket.disconnect() on a connected socket fires its 'disconnect' handler
CleanupIsConnected(old) ==
  IF old # 0 /\ sockets[ioCalls].state = "connected" THEN FALSE ELSE isConnected

\* the effect body; no socket without a scrip code
EffectSockets(socks, s) ==
  IF s = 0 THEN socks
  ELSE [i \in DOMAIN socks \cup {ioCalls + 1} |-> IF i = ioCalls + 1 THEN NewSocket(s) ELSE socks[i]]

EffectIoCalls(s) == IF s = 0 THEN ioCalls ELSE ioCalls + 1

\* ------------------------------------------------------- LiveStockPrice
\* the snapshot effect: fetchSnapshot up to its await
SnapshotEffectFetches(s) ==
  LET inFlight == {f \in snapFetches : f.status = "pending"}
  IN  IF s = 0 THEN inFlight
      ELSE inFlight \cup {[id |-> snapStarted + 1, scrip |-> s, status |-> "pending"]}

SnapshotEffectStarted(s) == IF s = 0 THEN snapStarted ELSE snapStarted + 1

SnapshotEffectLoading(s) == IF s = 0 THEN loading ELSE TRUE

\* a fetch has resolved: only the newest call's outcome is kept
Resolved(f, outcome) ==
  IF f.id = snapStarted
  THEN (snapFetches \ {f}) \cup {[f EXCEPT !.status = outcome]}
  ELSE snapFetches \ {f}

\* first render and first run of both effects
Mount(s) ==
  /\ lspPhase = "new"
  /\ lspPhase' = "mounted"
  /\ scripCode' = s
  /\ sockets' = EffectSockets(sockets, s)
  /\ ioCalls' = EffectIoCalls(s)
  /\ snapFetches' = SnapshotEffectFetches(s)
  /\ snapStarted' = SnapshotEffectStarted(s)
  /\ loading' = SnapshotEffectLoading(s)
  /\ UNCHANGED <<snapshot, currentPrice, error, liveData, uncaught, isConnected, wsError, lastEmit, openSubs, lastTick>>
  /\ UNCHANGED exPrice

\* the scripCode prop changes: cleanup of the old hook effect, then both effects
ChangeInstrument(s) ==
  /\ lspPhase = "mounted"
  /\ s # scripCode
  /\ s # 0 => ioCalls < MaxSockets
  /\ scripCode' = s
  /\ lastEmit' = CleanupEmit(scripCode)
  /\ openSubs' = CleanupOpenSubs(scripCode)
  /\ isConnected' = CleanupIsConnected(scripCode)
  /\ sockets' = EffectSockets(CleanupSockets(scripCode), s)
  /\ ioCalls' = EffectIoCalls(s)
  /\ snapFetches' = SnapshotEffectFetches(s)
  /\ snapStarted' = SnapshotEffectStarted(s)
  /\ loading' = SnapshotEffectLoading(s)
  /\ lastTick' = JsNull
  /\ UNCHANGED <<lspPhase, snapshot, currentPrice, error, liveData, uncaught, wsError>>
  /\ UNCHANGED exPrice

\* the widget is removed: cleanup only; later setState calls are no-ops
Unmount ==
  /\ lspPhase = "mounted"
  /\ lspPhase' = "unmounted"
  /\ lastEmit' = CleanupEmit(scripCode)
  /\ openSubs' = CleanupOpenSubs(scripCode)
  /\ sockets' = CleanupSockets(scripCode)
  /\ isConnected' = CleanupIsConnected(scripCode)
  /\ UNCHANGED <<scripCode, snapshot, currentPrice, loading, error, snapStarted, snapFetches,
                 liveData, uncaught, wsError, ioCalls, lastTick>>
  /\ UNCHANGED exPrice

\* get5paisaSnapshot resolved with the snapshot of the instrument it was called for
SnapshotOk(f, p) ==
  /\ f \in snapFetches
  /\ f.status = "pending"
  /\ snapFetches' = Resolved(f, "ok")
  /\ IF lspPhase = "mounted"
     THEN /\ snapshot' = [t |-> "obj", scrip |-> f.scrip, price |-> Num(p)]
          /\ currentPrice' = Num(p)
          /\ error' = ""
          /\ loading' = FALSE
     ELSE UNCHANGED <<snapshot, currentPrice, error, loading>>
  /\ UNCHANGED <<lspPhase, scripCode, snapStarted, wsVars>>
  /\ UNCHANGED exPrice

\* bug: no finally block, the loading flag stays set
SnapshotFail_NoFinally(f) ==
  /\ f \in snapFetches
  /\ f.status = "pending"
  /\ snapFetches' = Resolved(f, "fail")
  /\ IF lspPhase = "mounted"
     THEN error' = "Failed to fetch 5paisa stock data"
     ELSE UNCHANGED error
  /\ UNCHANGED <<lspPhase, scripCode, snapshot, currentPrice, loading, snapStarted, wsVars>>
  /\ UNCHANGED exPrice

\* get5paisaSnapshot threw
SnapshotFail(f) ==
  /\ f \in snapFetches
  /\ f.status = "pending"
  /\ snapFetches' = Resolved(f, "fail")
  /\ IF lspPhase = "mounted"
     THEN /\ error' = "Failed to fetch 5paisa stock data"
          /\ loading' = FALSE
     ELSE UNCHANGED <<error, loading>>
  /\ UNCHANGED <<lspPhase, scripCode, snapshot, currentPrice, snapStarted, wsVars>>
  /\ UNCHANGED exPrice

\* ------------------------------------------------------- socket events
\* 'connect' (first connect and every reconnect)
SocketConnect(i) ==
  /\ sockets[i].state \in {"connecting", "reconnecting"}
  /\ sockets' = [sockets EXCEPT ![i] = [@ EXCEPT !.state = "connected", !.attempts = 0, !.subscribed = TRUE,
                                                 !.delay = 0]]
  /\ isConnected' = TRUE
  /\ wsError' = ""
  /\ lastEmit' = [type |-> "subscribe_stock", scrip |-> sockets[i].scrip, sock |-> i, connected |-> TRUE]
  /\ openSubs' = openSubs \cup {sockets[i].scrip}
  /\ UNCHANGED <<lspVars, liveData, uncaught, ioCalls, lastTick>>
  /\ UNCHANGED exPrice

\* 'disconnect' after the transport dropped; the manager starts retrying
TransportDrop(i) ==
  /\ sockets[i].state = "connected"
  /\ \E d \in BackoffDelays :
       sockets' = [sockets EXCEPT ![i] = [@ EXCEPT !.state = "reconnecting", !.attempts = 0,
                                                   !.subscribed = FALSE, !.delay = d]]
  /\ isConnected' = FALSE
  /\ UNCHANGED <<lspVars, liveData, uncaught, wsError, ioCalls, lastEmit, openSubs, lastTick>>
  /\ UNCHANGED exPrice

\* bug: the manager is given no reconnectionAttempts and retries for ever
ConnectError_NoLimit(i) ==
  /\ sockets[i].state \in {"connecting", "reconnecting"}
  /\ sockets[i].attempts <= reconnectionAttempts
  /\ \E d \in BackoffDelays :
       sockets' = [sockets EXCEPT ![i] =
         IF @.state = "connecting" THEN [@ EXCEPT !.state = "reconnecting", !.delay = d]
         ELSE [@ EXCEPT !.attempts = @ + 1, !.delay = d]]
  /\ wsError' = "Failed to connect to live data stream"
  /\ isConnected' = FALSE
  /\ UNCHANGED <<lspVars, liveData, uncaught, ioCalls, lastEmit, openSubs, lastTick>>
  /\ UNCHANGED exPrice

\* 'connect_error': a connection attempt failed
ConnectError(i) ==
  /\ sockets[i].state \in {"connecting", "reconnecting"}
  /\ \E d \in BackoffDelays :
       sockets' = [sockets EXCEPT ![i] =
         IF @.state = "connecting" THEN [@ EXCEPT !.state = "reconnecting", !.delay = d]
         ELSE IF @.attempts + 1 >= reconnectionAttempts
              THEN [@ EXCEPT !.state = "failed", !.attempts = reconnectionAttempts, !.delay = 0]
              ELSE [@ EXCEPT !.attempts = @ + 1, !.delay = d]]
  /\ wsError' = "Failed to connect to live data stream"
  /\ isConnected' = FALSE
  /\ UNCHANGED <<lspVars, liveData, uncaught, ioCalls, lastEmit, openSubs, lastTick>>
  /\ UNCHANGED exPrice

\* 'error' event from the server
SocketError(i) ==
  /\ sockets[i].state = "connected"
  /\ wsError' = "WebSocket error"
  /\ UNCHANGED <<lspVars, liveData, uncaught, isConnected, ioCalls, sockets, lastEmit, openSubs, lastTick>>
  /\ UNCHANGED exPrice

\* stock_update payloads that carry ScripCode s; the handler takes whatever the socket delivers
Tick(s, ltp, rate, ltp2) == [t |-> "obj", ScripCode |-> s, LastTradedPrice |-> ltp, LastRate |-> rate, LTP |-> ltp2]

TickInputs(s) ==
  {Tick(s, Num(1), JsNull, JsNull),
   Tick(s, Num(0), Str(2), JsNull),
   Tick(s, JsNull, JsNull, JsNull),
   JsNull}

\* an instrument other than s
OtherScrip(s) == (s % NumScrips) + 1

\* a priced stock_update payload that carries the ScripCode of another instrument
ForeignTickInputs(s) == {Tick(OtherScrip(s), Num(1), JsNull, JsNull)}

newPrice(data) == Or(Or(data.LastTradedPrice, data.LastRate), data.LTP)

\* 'stock_update', then the liveData effect of the widget
StockUpdate(i, data) ==
  /\ sockets[i].state = "connected"
  /\ sockets[i].subscribed
  /\ IF data = JsNull
     THEN /\ uncaught' = TRUE                  \* data.ScripCode throws a TypeError
          /\ UNCHANGED <<liveData, currentPrice, lastTick>>
     ELSE /\ liveData' = data
          /\ UNCHANGED uncaught
          /\ IF Truthy(newPrice(data))
             THEN /\ currentPrice' = parseFloat(newPrice(data))
                  /\ lastTick' = (IF data.ScripCode = scripCode THEN parseFloat(newPrice(data))
                                  ELSE lastTick)
             ELSE UNCHANGED <<currentPrice, lastTick>>
  /\ UNCHANGED <<lspPhase, scripCode, snapshot, loading, error, snapStarted, snapFetches,
                 isConnected, wsError, ioCalls, sockets, lastEmit, openSubs>>
  /\ UNCHANGED exPrice

\* ======================================================= CandlestickChart
\* INTERVALS: value -> refreshSec, 0 for the daily interval's null
refreshSec(interval) ==
  CASE interval = "1m" -> 60
    [] interval = "5m" -> 300
    [] interval = "15m" -> 900
    [] interval = "30m" -> 1800
    [] interval = "60m" -> 3600
    [] interval = "1d" -> 0

\* the interval buttons pressed here
IntervalInputs == {"1m", "1d"}

\* the scripCode props the chart is given: none, and two instruments
CcScripInputs == {0, 1, 2}

\* the instant the clock starts from: Fri 6 Nov 2026 15:30:57 IST, 3 s before the
\* minute 15:31 in which the market is closed
PreClose == 1793959200 + 57

\* bug: the day and the minute are read off the UTC clock
isMarketOpen_Utc(t) ==
  LET day == ((t \div 86400) + 4) % 7
      mins == (t % 86400) \div 60
  IN  IF day = 0 \/ day = 6 THEN FALSE
      ELSE mins >= MarketOpenMin /\ mins <= MarketCloseMin

\* isMarketOpen() evaluated at instant t
isMarketOpen(t) ==
  LET ist == t + IstOffsetSec
      day == ((ist \div 86400) + 4) % 7        \* getUTCDay: 0 = Sun, 6 = Sat
      mins == (ist % 86400) \div 60            \* getUTCHours * 60 + getUTCMinutes
  IN  IF day = 0 \/ day = 6 THEN FALSE
      ELSE mins >= MarketOpenMin /\ mins <= MarketCloseMin

\* setInterval hands out an id no live timer has
FreshId(ts) == CHOOSE n \in 1..(Cardinality(ts) + 1) : \A t \in ts : t.id # n

\* bug: the refs are reset without clearInterval
StoppedTimers_Leak == timers

\* stopTimers: clearInterval on both refs
StoppedTimers == {t \in timers : t.id # refreshTimer /\ t.id # countdownTimer}

\* bug: stopTimers leaves the countdown on display
stopTimers_KeepsCountdown ==
  /\ timers' = StoppedTimers
  /\ refreshTimer' = 0
  /\ countdownTimer' = 0
  /\ countdown' = countdown
  /\ silentIssued' = 0

stopTimers ==
  /\ timers' = StoppedTimers
  /\ refreshTimer' = 0
  /\ countdownTimer' = 0
  /\ countdown' = JsNull
  /\ silentIssued' = 0

\* the two timers startAutoRefresh creates
NewTimers(interval, s, refreshPeriod) ==
  LET cd == [id |-> FreshId(StoppedTimers), kind |-> "countdown", period |-> 1,
             due |-> now + 1, interval |-> interval, scrip |-> s,
             remaining |-> refreshSec(interval), started |-> now]
      rf == [id |-> FreshId(StoppedTimers \cup {cd}), kind |-> "refresh",
             period |-> refreshPeriod, due |-> now + refreshPeriod,
             interval |-> interval, scrip |-> s, remaining |-> 0, started |-> now]
  IN  /\ timers' = StoppedTimers \cup {cd, rf}
      /\ countdownTimer' = cd.id
      /\ refreshTimer' = rf.id
      /\ countdown' = Num(refreshSec(interval))
      /\ silentIssued' = 0

\* bug: the market-hours test is missing
startAutoRefresh_AnyHour(interval, s) ==
  IF refreshSec(interval) = 0
  THEN stopTimers
  ELSE NewTimers(interval, s, refreshSec(interval))

\* bug: the refresh timer is given the countdown's period
startAutoRefresh_EverySecond(interval, s) ==
  IF refreshSec(interval) = 0 \/ ~isMarketOpen(now)
  THEN stopTimers
  ELSE NewTimers(interval, s, 1)

\* startAutoRefresh(interval), with the fetchCandles closure of instrument s
startAutoRefresh(interval, s) ==
  IF refreshSec(interval) = 0 \/ ~isMarketOpen(now)
  THEN stopTimers
  ELSE NewTimers(interval, s, refreshSec(interval))

\* fetchCandles(interval, showLoader) of the closure for instrument s, up to its await
fetchCandles(s, interval, showLoader) ==
  IF s = 0
  THEN UNCHANGED <<ccLoading, ccError, fetchStarted, candleFetches>>
  ELSE /\ ccLoading' = (IF showLoader THEN TRUE ELSE ccLoading)
       /\ ccError' = ""
       /\ fetchStarted' = fetchStarted + 1
       /\ candleFetches' = candleFetches \cup
            {[id |-> fetchStarted + 1, scrip |-> s, interval |-> interval, showLoader |-> showLoader]}

\* first render, the init effect and the reload effect
CcMount(s) ==
  /\ ccPhase = "new"
  /\ ccPhase' = "mounted"
  /\ ccScripCode' = s
  /\ chartCreated' = (s # 0)             \* no container is rendered without a scrip code
  /\ fetchCandles(s, selectedInterval, TRUE)
  /\ startAutoRefresh(selectedInterval, s)
  /\ UNCHANGED <<selectedInterval, lastUpdated, marketOpen, chartData, now>>
  /\ UNCHANGED exChart

\* an interval button: setSelectedInterval, then the reload effect (cleanup first)
SelectInterval(v) ==
  /\ ccPhase = "mounted"
  /\ ccScripCode # 0                     \* the buttons are rendered with the chart
  /\ v # selectedInterval
  /\ fetchStarted < MaxFetches
  /\ selectedInterval' = v
  /\ fetchCandles(ccScripCode, v, TRUE)
  /\ startAutoRefresh(v, ccScripCode)
  /\ UNCHANGED <<ccPhase, ccScripCode, lastUpdated, marketOpen, chartCreated, chartData, now>>
  /\ UNCHANGED exChart

\* the scripCode prop changes: the reload effect (cleanup first)
CcChangeInstrument(s) ==
  /\ ccPhase = "mounted"
  /\ s # ccScripCode
  /\ s # 0 => fetchStarted < MaxFetches
  /\ ccScripCode' = s
  /\ fetchCandles(s, selectedInterval, TRUE)
  /\ startAutoRefresh(selectedInterval, s)
  /\ UNCHANGED <<ccPhase, selectedInterval, lastUpdated, marketOpen, chartCreated, chartData, now>>
  /\ UNCHANGED exChart

\* requests after which Retry is pressed no more: one more while the scheduler runs
RetryBudget == IF timers # {} THEN MaxFetches + 1 ELSE MaxFetches

\* bug: Retry goes through the reload effect and restarts the scheduler
Retry_RestartsScheduler ==
  /\ ccPhase = "mounted"
  /\ ccScripCode # 0
  /\ ccError # "" /\ ~ccLoading
  /\ fetchStarted < RetryBudget
  /\ fetchCandles(ccScripCode, selectedInterval, TRUE)
  /\ startAutoRefresh(selectedInterval, ccScripCode)
  /\ UNCHANGED <<ccPhase, ccScripCode, selectedInterval, lastUpdated, marketOpen,
                 chartCreated, chartData, now>>
  /\ UNCHANGED exChart

\* the Retry button of the error overlay
Retry ==
  /\ ccPhase = "mounted"
  /\ ccScripCode # 0
  /\ ccError # "" /\ ~ccLoading
  /\ fetchStarted < RetryBudget
  /\ fetchCandles(ccScripCode, selectedInterval, TRUE)
  /\ UNCHANGED <<ccPhase, ccScripCode, selectedInterval, lastUpdated, marketOpen, countdown,
                 refreshTimer, countdownTimer, chartCreated, chartData, timers, silentIssued, now>>
  /\ UNCHANGED exChart

\* what setData puts on the series for the candles of fetch f
Candles(f) == [t |-> "obj", fetch |-> f.id, scrip |-> f.scrip, interval |-> f.interval]

\* the response arrived with candles; the refs outlive chart.remove(), and setData on the
\* series of a removed chart either goes through or throws into the catch block
CandlesOk(f) ==
  /\ f \in candleFetches
  /\ candleFetches' = candleFetches \ {f}
  /\ IF ccPhase = "mounted"
     THEN /\ chartData' = (IF chartCreated THEN Candles(f) ELSE chartData)
          /\ lastUpdated' = f.id
          /\ marketOpen' = isMarketOpen(now)
          /\ ccLoading' = (IF f.showLoader THEN FALSE ELSE ccLoading)
     ELSE /\ chartData' \in (IF chartCreated THEN {Candles(f), chartData} ELSE {chartData})
          /\ UNCHANGED <<lastUpdated, marketOpen, ccLoading>>
  /\ UNCHANGED <<ccPhase, ccScripCode, selectedInterval, ccError, countdown, refreshTimer,
                 countdownTimer, chartCreated, fetchStarted, timers, silentIssued, now>>
  /\ UNCHANGED exChart

\* bug: a failed fetch wipes the series
CandlesFail_Clears(f, msg) ==
  /\ f \in candleFetches
  /\ candleFetches' = candleFetches \ {f}
  /\ IF ccPhase = "mounted"
     THEN /\ ccError' = msg
          /\ chartData' = JsNull
          /\ ccLoading' = (IF f.showLoader THEN FALSE ELSE ccLoading)
     ELSE UNCHANGED <<ccError, chartData, ccLoading>>
  /\ UNCHANGED <<ccPhase, ccScripCode, selectedInterval, lastUpdated, marketOpen, countdown,
                 refreshTimer, countdownTimer, chartCreated, fetchStarted, timers,
                 silentIssued, now>>
  /\ UNCHANGED exChart

\* the response was an error, or carried no candles
CandlesFail(f, msg) ==
  /\ f \in candleFetches
  /\ candleFetches' = candleFetches \ {f}
  /\ IF ccPhase = "mounted"
     THEN /\ ccError' = msg
          /\ ccLoading' = (IF f.showLoader THEN FALSE ELSE ccLoading)
     ELSE UNCHANGED <<ccError, ccLoading>>
  /\ UNCHANGED <<ccPhase, ccScripCode, selectedInterval, lastUpdated, marketOpen, countdown,
                 refreshTimer, countdownTimer, chartCreated, chartData, fetchStarted, timers,
                 silentIssued, now>>
  /\ UNCHANGED exChart

\* the message thrown for a response that is ok and carries an empty candle list
NoCandles == "No candle data returned from 5paisa"

FetchErrors == {"Failed to fetch chart data", NoCandles}

\* the controls the error overlay of the chart offers
CcErrorControls == IF ccError # "" /\ ~ccLoading THEN {"Retry"} ELSE {}

\* bug: the counter is never wound back
CountdownFire_NoWrap(t) ==
  /\ t \in timers
  /\ t.kind = "countdown"
  /\ t.due = now
  /\ countdown' = Num(t.remaining - 1)
  /\ timers' = (timers \ {t}) \cup {[t EXCEPT !.due = @ + t.period, !.remaining = t.remaining - 1]}
  /\ UNCHANGED <<ccPhase, ccScripCode, selectedInterval, ccLoading, ccError, lastUpdated,
                 marketOpen, refreshTimer, countdownTimer, chartCreated, chartData, fetchStarted,
                 candleFetches, silentIssued, now>>
  /\ UNCHANGED exChart

\* the 1-second timer's callback
CountdownFire(t) ==
  /\ t \in timers
  /\ t.kind = "countdown"
  /\ t.due = now
  /\ countdown' = Num(t.remaining - 1)
  /\ timers' = (timers \ {t}) \cup
       {[t EXCEPT !.due = @ + t.period,
                  !.remaining = IF t.remaining - 1 <= 0 THEN refreshSec(t.interval) ELSE t.remaining - 1]}
  /\ UNCHANGED <<ccPhase, ccScripCode, selectedInterval, ccLoading, ccError, lastUpdated,
                 marketOpen, refreshTimer, countdownTimer, chartCreated, chartData, fetchStarted,
                 candleFetches, silentIssued, now>>
  /\ UNCHANGED exChart

\* the refresh timer's callback: fetchCandles(interval, false)
RefreshFire(t) ==
  /\ t \in timers
  /\ t.kind = "refresh"
  /\ t.due = now
  /\ timers' = (timers \ {t}) \cup {[t EXCEPT !.due = @ + t.period]}
  /\ fetchCandles(t.scrip, t.interval, FALSE)
  /\ silentIssued' = silentIssued + 1
  /\ UNCHANGED <<ccPhase, ccScripCode, selectedInterval, lastUpdated, marketOpen, countdown,
                 refreshTimer, countdownTimer, chartCreated, chartData, now>>
  /\ UNCHANGED exChart

\* one second passes, up to the instant the watch ends; a timer that is due fires first
Advance(end) ==
  /\ \A t \in timers : t.due > now
  /\ now < end
  /\ now' = now + 1
  /\ UNCHANGED <<ccPhase, ccScripCode, selectedInterval, ccLoading, ccError, lastUpdated,
                 marketOpen, countdown, refreshTimer, countdownTimer, chartCreated, chartData,
                 fetchStarted, candleFetches, timers, silentIssued>>
  /\ UNCHANGED exChart

AdvanceSecond == Advance(PreClose + MaxSeconds)

\* the same, for a chart that is left alone for two refresh periods
AdvanceLong == Advance(PreClose + MaxLongSeconds)

\* the chart is removed: cleanup of the reload effect and of the init effect
CcUnmount ==
  /\ ccPhase = "mounted"
  /\ ccPhase' = "unmounted"
  /\ stopTimers
  /\ UNCHANGED <<ccScripCode, selectedInterval, ccLoading, ccError, lastUpdated, marketOpen,
                 chartCreated, chartData, fetchStarted, candleFetches, now>>
  /\ UNCHANGED exChart

InitChart ==
  /\ ccPhase = "new"
  /\ ccScripCode = 0
  /\ selectedInterval = "1d"
  /\ ccLoading = FALSE
  /\ ccError = ""
  /\ lastUpdated = 0
  /\ marketOpen = FALSE
  /\ countdown = JsNull
  /\ refreshTimer = 0
  /\ countdownTimer = 0
  /\ chartCreated = FALSE
  /\ chartData = JsNull
  /\ fetchStarted = 0
  /\ candleFetches = {}
  /\ timers = {}
  /\ silentIssued = 0
  /\ now = PreClose

NextChart ==
  \/ \E s \in CcScripInputs : CcMount(s)
  \/ \E v \in IntervalInputs : SelectInterval(v)
  \/ \E s \in CcScripInputs : CcChangeInstrument(s)
  \/ Retry
  \/ \E f \in candleFetches : CandlesOk(f)
  \/ \E f \in candleFetches, msg \in FetchErrors : CandlesFail(f, msg)
  \/ \E t \in timers : CountdownFire(t)
  \/ \E t \in timers : RefreshFire(t)
  \/ AdvanceSecond
  \/ CcUnmount

\* a chart that is mounted, put on an interval and then left alone
NextClose ==
  \/ \E s \in Scrips : CcMount(s)
  \/ \E v \in IntervalInputs : SelectInterval(v)
  \/ \E f \in candleFetches : CandlesOk(f)
  \/ \E f \in candleFetches, msg \in FetchErrors : CandlesFail(f, msg)
  \/ \E t \in timers : CountdownFire(t)
  \/ \E t \in timers : RefreshFire(t)
  \/ AdvanceLong

\* ------------------------------------------------------- specification
InitPrice ==
  /\ lspPhase = "new"
  /\ scripCode = 0
  /\ snapshot = JsNull
  /\ currentPrice = JsNull
  /\ loading = TRUE
  /\ error = ""
  /\ snapStarted = 0
  /\ snapFetches = {}
  /\ liveData = JsNull
  /\ isConnected = FALSE
  /\ wsError = ""
  /\ uncaught = FALSE
  /\ ioCalls = 0
  /\ sockets = <<>>
  /\ lastEmit = [type |-> "none"]
  /\ openSubs = {}
  /\ lastTick = JsNull

NextPrice ==
  \/ \E s \in ScripInputs : Mount(s)
  \/ \E s \in ScripInputs : ChangeInstrument(s)
  \/ Unmount
  \/ \E f \in snapFetches, p \in Prices : SnapshotOk(f, p)
  \/ \E f \in snapFetches : SnapshotFail(f)
  \/ \E i \in DOMAIN sockets : SocketConnect(i)
  \/ \E i \in DOMAIN sockets : TransportDrop(i)
  \/ \E i \in DOMAIN sockets : ConnectError(i)
  \/ \E i \in DOMAIN sockets : SocketError(i)
  \/ \E i \in DOMAIN sockets : \E data \in TickInputs(sockets[i].scrip) : StockUpdate(i, data)
  \/ \E i \in DOMAIN sockets : \E data \in ForeignTickInputs(sockets[i].scrip) : StockUpdate(i, data)

\* ============================================================ useWebSocket
\* connect(): one socket per hook, with the connect and disconnect handlers
MwConnect ==
  /\ mwSocket = "none"
  /\ mwSocket' = "connecting"
  /\ UNCHANGED <<mwIsConnected, mwEmitted, mwRequested, mwServed>>
  /\ UNCHANGED exManual

\* 'connect' (first connect and every reconnect)
MwSocketConnect ==
  /\ mwSocket \in {"connecting", "reconnecting"}
  /\ mwSocket' = "connected"
  /\ mwIsConnected' = TRUE
  /\ UNCHANGED <<mwEmitted, mwRequested, mwServed>>
  /\ UNCHANGED exManual

\* 'disconnect' after the transport dropped; the feed forgets the connection's subscriptions
MwTransportDrop ==
  /\ mwSocket = "connected"
  /\ mwSocket' = "reconnecting"
  /\ mwIsConnected' = FALSE
  /\ mwServed' = {}
  /\ UNCHANGED <<mwEmitted, mwRequested>>
  /\ UNCHANGED exManual

\* disconnect()
MwDisconnect ==
  /\ mwSocket # "none"
  /\ mwSocket' = "none"
  /\ mwIsConnected' = FALSE
  /\ mwServed' = {}
  /\ UNCHANGED <<mwEmitted, mwRequested>>
  /\ UNCHANGED exManual

\* subscribe(scripCode): emits only with a socket and isConnected
subscribe(s) ==
  /\ mwRequested' = mwRequested \cup {s}
  /\ IF mwSocket # "none" /\ mwIsConnected
     THEN /\ Len(mwEmitted) < MaxEmits
          /\ mwEmitted' = Append(mwEmitted, [type |-> "subscribe_stock", scrip |-> s])
          /\ mwServed' = mwServed \cup {s}
     ELSE UNCHANGED <<mwEmitted, mwServed>>
  /\ UNCHANGED <<mwSocket, mwIsConnected>>
  /\ UNCHANGED exManual

\* unsubscribe(scripCode): emits only with a socket and isConnected
unsubscribe(s) ==
  /\ mwRequested' = mwRequested \ {s}
  /\ IF mwSocket # "none" /\ mwIsConnected
     THEN /\ Len(mwEmitted) < MaxEmits
          /\ mwEmitted' = Append(mwEmitted, [type |-> "unsubscribe_stock", scrip |-> s])
          /\ mwServed' = mwServed \ {s}
     ELSE UNCHANGED <<mwEmitted, mwServed>>
  /\ UNCHANGED <<mwSocket, mwIsConnected>>
  /\ UNCHANGED exManual

InitManual ==
  /\ mwSocket = "none"
  /\ mwIsConnected = FALSE
  /\ mwEmitted = <<>>
  /\ mwRequested = {}
  /\ mwServed = {}

NextManual ==
  \/ MwConnect
  \/ MwSocketConnect
  \/ MwTransportDrop
  \/ MwDisconnect
  \/ \E s \in Scrips : subscribe(s)
  \/ \E s \in Scrips : unsubscribe(s)

\* =========================================================== isMarketOpen
\* Sun 1 Nov 2026 00:00:00 UTC, in seconds since the epoch
SundayUtc == 1793491200

\* IST days of the week (0 = Sunday) and seconds of the IST day handed in: midnight,
\* 09:14:59, 09:15:00, noon, 15:30:00, 15:30:59, 15:31:00, 23:59:59
DayInputs == 0..6
SecInputs == {0, 33299, 33300, 43200, 55800, 55859, 55860, 86399}

\* now.getTime() / 1000 at the instant whose IST calendar reading is c
Instant(c) == SundayUtc + (c.week * 7 + c.day) * 86400 + c.sec - (5 * 3600 + 30 * 60)

\* isMarketOpen() is called at the instant clockInput
MarketCall ==
  /\ mktResult = "none"
  /\ mktResult' = (IF isMarketOpen(Instant(clockInput)) THEN "true" ELSE "false")
  /\ UNCHANGED clockInput
  /\ UNCHANGED exHours

InitHoursIdle ==
  /\ clockInput = [week |-> 0, day |-> 0, sec |-> 0]
  /\ mktResult = "none"

InitHoursInputs ==
  /\ clockInput \in [week : 0..(MaxWeeks - 1), day : DayInputs, sec : SecInputs]
  /\ mktResult = "none"

NextHours == MarketCall

\* =========================================================== getScripCode
\* a symbol is the sequence of its pieces: names and exchange suffixes, in either case
Tokens == {"TCS", "tcs", "ZZZ", ".NS", ".ns", ".BO"}

RECURSIVE SymbolsOfLength(_)
SymbolsOfLength(n) ==
  IF n = 0 THEN {<<>>}
  ELSE {Append(sym, tok) : sym \in SymbolsOfLength(n - 1), tok \in Tokens}

SymbolInputs == UNION {SymbolsOfLength(n) : n \in 0..MaxTokens}

\* answers of the search endpoint: results found, none found, 404, a failure
ApiInputs ==
  {[status |-> "ok", results |-> <<[scripCode |-> Num(7)]>>],
   [status |-> "ok", results |-> <<[scripCode |-> Num(7)], [scripCode |-> Num(8)]>>],
   [status |-> "ok", results |-> <<>>],
   [status |-> "404", results |-> <<>>],
   [status |-> "error", results |-> <<>>]}

\* String.prototype.toUpperCase
toUpperCase(sym) ==
  [i \in DOMAIN sym |-> CASE sym[i] = "tcs" -> "TCS"
                           [] sym[i] = ".ns" -> ".NS"
                           [] OTHER -> sym[i]]

\* String.prototype.replace with a string pattern: the first occurrence only
RECURSIVE replace(_, _)
replace(sym, tok) ==
  IF sym = <<>> THEN <<>>
  ELSE IF Head(sym) = tok THEN Tail(sym)
  ELSE <<Head(sym)>> \o replace(Tail(sym), tok)

\* SCRIP_CODES[key], JsNull for undefined
SCRIP_CODES(key) ==
  CASE key = <<"RELIANCE">> -> Num(1660)
    [] key = <<"TCS">> -> Num(11536)
    [] key = <<"INFY">> -> Num(1594)
    [] key = <<"HDFC">> -> Num(1330)
    [] key = <<"ICICI">> -> Num(4963)
    [] key = <<"ITC">> -> Num(1660)
    [] key = <<"SBIN">> -> Num(3045)
    [] key = <<"HINDUNILVR">> -> Num(1394)
    [] key = <<"BHARTIARTL">> -> Num(10604)
    [] key = <<"KOTAKBANK">> -> Num(1922)
    [] OTHER -> JsNull

\* searchScripCode: data.results || [], and [] for whatever it catches
searchScripCode(api) == IF api.status = "error" THEN <<>> ELSE api.results

\* the hardcoded fallback of getScripCode
Fallback(sym) == Or(SCRIP_CODES(replace(replace(toUpperCase(sym), ".NS"), ".BO")), JsNull)

\* bug: the search results are not looked at
getScripCode_FallbackOnly(sym, api) == Fallback(sym)

\* getScripCode(symbol), given what the search endpoint answers
getScripCode(sym, api) ==
  LET results == searchScripCode(api)
  IN  IF Len(results) > 0 THEN results[1].scripCode ELSE Fallback(sym)

\* the promise of getScripCode settles
LookupCall ==
  /\ lookupResult = [t |-> "pending"]
  /\ lookupResult' = getScripCode(lookupSymbol, lookupApi)
  /\ UNCHANGED <<lookupSymbol, lookupApi>>
  /\ UNCHANGED exLookup

InitLookupIdle ==
  /\ lookupSymbol = <<>>
  /\ lookupApi = [status |-> "error", results |-> <<>>]
  /\ lookupResult = [t |-> "pending"]

InitLookupInputs ==
  /\ lookupSymbol \in SymbolInputs
  /\ lookupApi \in ApiInputs
  /\ lookupResult = [t |-> "pending"]

NextLookup == LookupCall

\* ================================================================= routes
\* the route table of App: the public group and the group under Layout
PublicRoutes == {"/", "/login", "/register"}
ProtectedRoutes == {"/dashboard", "/stock/:symbol", "/chatbot", "/profile", "/about"}

\* isAuthenticated(): !!getAuthToken()
isAuthenticated == token # "none"

\* the router goes to path and the history gets one entry more
GoTo(path) ==
  /\ Len(history) < MaxHistory
  /\ location' = path
  /\ history' = Append(history, location)

\* a link, or a path typed into the address bar: the route's element is rendered
Visit(path) ==
  /\ path # location
  /\ GoTo(path)
  /\ UNCHANGED token
  /\ UNCHANGED exAuth

\* Login.handleSubmit: logs the form and navigates
LoginSubmit ==
  /\ location = "/login"
  /\ GoTo("/dashboard")
  /\ UNCHANGED token
  /\ UNCHANGED exAuth

\* the passwords typed into the register form
PasswordInputs == {"p", "q"}

\* Register.handleSubmit: alert when the passwords differ, else navigates
RegisterSubmit(password, confirmPassword) ==
  /\ location = "/register"
  /\ password = confirmPassword
  /\ GoTo("/dashboard")
  /\ UNCHANGED token
  /\ UNCHANGED exAuth

\* Sidebar.handleLogout: window.location.href = '/'
handleLogout ==
  /\ location \in ProtectedRoutes
  /\ GoTo("/")
  /\ UNCHANGED token
  /\ UNCHANGED exAuth

\* authService.login resolved with an access token: setAuthToken
login ==
  /\ token = "none"
  /\ token' = "access_token"
  /\ UNCHANGED <<location, history>>
  /\ UNCHANGED exAuth

\* authService.logout: removeAuthToken, then window.location.href = '/login'
logout ==
  /\ GoTo("/login")
  /\ token' = "none"
  /\ UNCHANGED exAuth

\* Profile: the account was deleted: removeAuthToken, then navigate('/login')
handleDeleteAccount ==
  /\ location = "/profile"
  /\ GoTo("/login")
  /\ token' = "none"
  /\ UNCHANGED exAuth

InitAuth ==
  /\ location = "/"
  /\ history = <<>>
  /\ token = "none"

NextAuth ==
  \/ \E path \in PublicRoutes \cup ProtectedRoutes : Visit(path)
  \/ LoginSubmit
  \/ \E password \in PasswordInputs, confirmPassword \in PasswordInputs :
       RegisterSubmit(password, confirmPassword)
  \/ handleLogout
  \/ login
  \/ logout
  \/ handleDeleteAccount

\* ================================================== StockSearchAutocomplete
\* what is typed into the box: nothing, one character, one character between blanks,
\* two characters, three characters
QueryInputs == {<<>>, <<"a">>, <<" ", "a", " ">>, <<"a", "b">>, <<"a", "b", "c">>}

\* how many rows the search endpoint answers with
ResultCounts == {0, 1, 11}

RECURSIVE trimStart(_)
trimStart(q) == IF q # <<>> /\ Head(q) = " " THEN trimStart(Tail(q)) ELSE q

RECURSIVE trimEnd(_)
trimEnd(q) == IF q # <<>> /\ q[Len(q)] = " " THEN trimEnd(SubSeq(q, 1, Len(q) - 1)) ELSE q

\* String.prototype.trim
trim(q) == trimEnd(trimStart(q))

NoSuggestions == [search |-> 0, items |-> 0]

\* results.slice(0, 10) of a list of n rows
slice10(n) == IF n > 10 THEN 10 ELSE n

\* clearTimeout(debounceTimer.current): the timers left
ClearedTimeouts == {t \in timeouts : t.id # debounceTimer}

\* the input's onChange: clearTimeout, then setTimeout
handleInputChange(value) ==
  /\ sbMounted
  /\ value # searchQuery
  /\ searchQuery' = value
  /\ timeouts' = ClearedTimeouts \cup {[id |-> FreshId(ClearedTimeouts), value |-> value]}
  /\ debounceTimer' = FreshId(ClearedTimeouts)
  /\ UNCHANGED <<sbMounted, suggestions, isLoading, showDropdown, searchStarted, searches>>
  /\ UNCHANGED authVars
  /\ UNCHANGED exSearch

\* the 300 ms timeout fires: handleSearch(value) up to its await; setState on a removed
\* box does nothing
DebounceFire(t) ==
  /\ t \in timeouts
  /\ timeouts' = timeouts \ {t}
  /\ IF Len(trim(t.value)) < 2
     THEN /\ suggestions' = (IF sbMounted THEN NoSuggestions ELSE suggestions)
          /\ showDropdown' = (IF sbMounted THEN FALSE ELSE showDropdown)
          /\ UNCHANGED <<isLoading, searchStarted, searches>>
     ELSE /\ searchStarted < MaxSearches
          /\ isLoading' = (IF sbMounted THEN TRUE ELSE isLoading)
          /\ searchStarted' = searchStarted + 1
          /\ searches' = searches \cup {[id |-> searchStarted + 1, query |-> t.value, selected |-> FALSE]}
          /\ UNCHANGED <<suggestions, showDropdown>>
  /\ UNCHANGED <<sbMounted, searchQuery, debounceTimer>>
  /\ UNCHANGED authVars
  /\ UNCHANGED exSearch

\* searchScripCode resolved with n rows ([] for whatever it caught)
SearchResolved(r, n) ==
  /\ r \in searches
  /\ searches' = searches \ {r}
  /\ IF sbMounted
     THEN /\ suggestions' = (IF n > 0 THEN [search |-> r.id, items |-> slice10(n)] ELSE NoSuggestions)
          /\ showDropdown' = (n > 0)
          /\ isLoading' = FALSE
     ELSE UNCHANGED <<suggestions, showDropdown, isLoading>>
  /\ UNCHANGED <<sbMounted, searchQuery, debounceTimer, timeouts, searchStarted>>
  /\ UNCHANGED authVars
  /\ UNCHANGED exSearch

\* handleStockSelect, from a click on a row or from Enter; the page the router goes to
\* may or may not keep the box
handleStockSelect(stays) ==
  /\ sbMounted
  /\ suggestions.items > 0
  /\ showDropdown \/ trim(searchQuery) # <<>>
  /\ searchQuery' = <<>>
  /\ suggestions' = NoSuggestions
  /\ showDropdown' = FALSE
  /\ GoTo("/stock/:symbol")
  /\ sbMounted' = stays
  /\ searches' = {[r EXCEPT !.selected = TRUE] : r \in searches}
  /\ UNCHANGED <<isLoading, debounceTimer, timeouts, searchStarted, token>>
  /\ UNCHANGED exSearch

\* mousedown outside the box
handleClickOutside ==
  /\ sbMounted
  /\ showDropdown
  /\ showDropdown' = FALSE
  /\ UNCHANGED <<sbMounted, searchQuery, suggestions, isLoading, debounceTimer, timeouts,
                 searchStarted, searches>>
  /\ UNCHANGED authVars
  /\ UNCHANGED exSearch

\* the input's onFocus
onFocus ==
  /\ sbMounted
  /\ suggestions.items > 0
  /\ ~showDropdown
  /\ showDropdown' = TRUE
  /\ UNCHANGED <<sbMounted, searchQuery, suggestions, isLoading, debounceTimer, timeouts,
                 searchStarted, searches>>
  /\ UNCHANGED authVars
  /\ UNCHANGED exSearch

InitSearch ==
  /\ sbMounted = TRUE
  /\ searchQuery = <<>>
  /\ suggestions = NoSuggestions
  /\ isLoading = FALSE
  /\ showDropdown = FALSE
  /\ debounceTimer = 0
  /\ timeouts = {}
  /\ searchStarted = 0
  /\ searches = {}

NextSearch ==
  \/ \E value \in QueryInputs : handleInputChange(value)
  \/ \E t \in timeouts : DebounceFire(t)
  \/ \E r \in searches, n \in ResultCounts : SearchResolved(r, n)
  \/ \E stays \in BOOLEAN : handleStockSelect(stays)
  \/ handleClickOutside
  \/ onFocus

\* ================================================================ Chatbot
\* what is typed into the chat input: nothing, a blank, a suggested question, a greeting
InputValues == {"", " ", "What is P/E ratio?", "hello"}

\* inputValue.trim() is the empty string
Blank(v) == v \in {"", " "}

\* getBotResponse: the canned answer for the message
getBotResponse(userMessage) ==
  IF userMessage = "What is P/E ratio?" THEN "The P/E (Price-to-Earnings) ratio is ..."
  ELSE "That's an interesting question! ..."

UserMessages == {i \in DOMAIN messages : messages[i].type = "user"}
BotMessages == {i \in DOMAIN messages : messages[i].type = "bot"}

\* the input's onChange, and a click on a suggested question
setInputValue(v) ==
  /\ v # inputValue
  /\ inputValue' = v
  /\ UNCHANGED <<messages, isTyping, replies>>
  /\ UNCHANGED exChat

\* handleSendMessage: both ids are computed from the messages of the render the handler
\* belongs to; the reply is left to a timeout of 1 to 2 seconds
handleSendMessage ==
  /\ ~Blank(inputValue)
  /\ Cardinality(UserMessages) < MaxSends
  /\ messages' = Append(messages, [id |-> Len(messages) + 1, type |-> "user", content |-> inputValue])
  /\ inputValue' = ""
  /\ isTyping' = TRUE
  /\ replies' = replies \cup {[id |-> Len(messages) + 2, content |-> getBotResponse(inputValue),
                                sent |-> Cardinality(UserMessages) + 1]}
  /\ UNCHANGED exChat

\* the timeout of a send fires
BotReply(r) ==
  /\ r \in replies
  /\ replies' = replies \ {r}
  /\ messages' = Append(messages, [id |-> r.id, type |-> "bot", content |-> r.content])
  /\ isTyping' = FALSE
  /\ UNCHANGED inputValue
  /\ UNCHANGED exChat

InitChat ==
  /\ messages = <<[id |-> 1, type |-> "bot", content |-> "Hello! I'm MarketMind AI, ..."]>>
  /\ inputValue = ""
  /\ isTyping = FALSE
  /\ replies = {}

NextChat ==
  \/ \E v \in InputValues : setInputValue(v)
  \/ handleSendMessage
  \/ \E r \in replies : BotReply(r)

Init == InitPrice /\ InitChart /\ InitManual /\ InitHoursIdle /\ InitLookupIdle /\ InitAuth /\ InitSearch /\ InitChat

InitHours == InitPrice /\ InitChart /\ InitManual /\ InitHoursInputs /\ InitLookupIdle /\ InitAuth /\ InitSearch /\ InitChat

InitLookup == InitPrice /\ InitChart /\ InitManual /\ InitHoursIdle /\ InitLookupInputs /\ InitAuth /\ InitSearch /\ InitChat

\* the price widget alone
SpecPrice == Init /\ [][NextPrice]_vars

\* the candlestick chart alone
SpecChart == Init /\ [][NextChart]_vars

\* the candlestick chart left alone across the market close
SpecClose == Init /\ [][NextClose]_vars

\* the router of App with the auth token
SpecAuth == Init /\ [][NextAuth]_vars

\* the stock search box
SpecSearch == Init /\ [][NextSearch]_vars

\* the chatbot page
SpecChat == Init /\ [][NextChat]_vars

\* a component that drives useWebSocket by hand
SpecManual == Init /\ [][NextManual]_vars

\* isMarketOpen called at one of the instants
SpecHours == InitHours /\ [][NextHours]_vars

\* getScripCode called with one of the symbols
SpecLookup == InitLookup /\ [][NextLookup]_vars

\* =============================================================== claims
\* the socket of the current effect is connected
Connected == scripCode # 0 /\ ioCalls \in DOMAIN sockets /\ sockets[ioCalls].state = "connected"

\* C1: at most one instrument subscription is active at any time; the only socket and the
\* only open subscription are those of the selected instrument, so on a change from X to Y
\* unsubscribe_stock for X has been emitted by the time subscribe_stock for Y is
C1_OneSubscription ==
  /\ Cardinality(ActiveSubs) <= 1
  /\ DOMAIN sockets \subseteq {ioCalls}
  /\ \A i \in DOMAIN sockets : sockets[i].scrip = scripCode
  /\ openSubs \subseteq {scripCode}
  /\ lspPhase = "unmounted" => openSubs = {} /\ sockets = <<>>
  /\ (lastEmit.type = "subscribe_stock" /\ lspPhase = "mounted" /\ scripCode # 0 /\ lastEmit.sock = ioCalls)
       => lastEmit.scrip = scripCode

\* the instrument was changed and the new instrument's subscription is the active one
C1_Witness ==
  /\ lspPhase = "mounted"
  /\ ioCalls >= 2
  /\ lastEmit.type = "subscribe_stock"
  /\ lastEmit.scrip = scripCode
  /\ openSubs = {scripCode}
  /\ ActiveSubs = {ioCalls}

\* C2 (as stated): the widget never shows the price of an instrument other than the
\* selected one
C2_NoStalePrice ==
  (lspPhase = "mounted" /\ scripCode # 0 /\ Display = "price") => snapshot.scrip = scripCode

\* C8 (as stated): once a priced tick has arrived since the instrument was selected, the
\* price shown is the newest tick's, whichever of snapshot and tick came first
C8_TickWins ==
  (lspPhase = "mounted" /\ Display = "price" /\ lastTick # JsNull) => priceToShow = lastTick

\* C9 (as stated): while the snapshot fetch of the selected instrument has failed, no
\* subscribe_stock has been emitted for it
C9_NoSubscribeAfterFailure ==
  (/\ lspPhase = "mounted"
   /\ \E f \in snapFetches : f.id = snapStarted /\ f.scrip = scripCode /\ f.status = "fail")
    => scripCode \notin openSubs

\* C9 (amended): a failed snapshot fetch puts the widget in the error state, where no
\* price is rendered, and touches neither the socket nor its subscription
C9_FailureShowsError ==
  [][(lspPhase = "mounted" /\ \E f \in snapFetches : SnapshotFail(f))
       => /\ Display' = "error"
          /\ sockets' = sockets /\ openSubs' = openSubs /\ lastEmit' = lastEmit
          /\ isConnected' = isConnected]_vars

\* the error state is shown while the failed instrument is subscribed and served
C9_Witness ==
  /\ lspPhase = "mounted"
  /\ Display = "error"
  /\ \E f \in snapFetches : f.id = snapStarted /\ f.scrip = scripCode /\ f.status = "fail"
  /\ scripCode \in openSubs
  /\ ActiveSubs = {ioCalls}

\* C10: the badge reads LIVE exactly while the hook's socket is connected; a transport
\* drop turns it to DELAYED and leaves what the widget displays as it was
C10_Badge ==
  [][/\ lspPhase' = "mounted" => ((Badge' = "LIVE") <=> Connected')
     /\ (lspPhase = "mounted" /\ \E i \in DOMAIN sockets : TransportDrop(i))
          => /\ Badge = "LIVE" /\ Badge' = "DELAYED"
             /\ Display' = Display
             /\ currentPrice' = currentPrice /\ snapshot' = snapshot]_vars

\* a tick price is on display under the DELAYED badge after the transport dropped
C10_Witness ==
  /\ lspPhase = "mounted"
  /\ Display = "price"
  /\ lastTick # JsNull /\ priceToShow = lastTick
  /\ Badge = "DELAYED"
  /\ ioCalls \in DOMAIN sockets /\ sockets[ioCalls].state = "reconnecting"

\* C3 (as stated): candles on the chart are never replaced by those of a fetch that was
\* started earlier
C3_LastStartedWins ==
  [][(chartData # JsNull /\ chartData' # JsNull) => chartData'.fetch >= chartData.fetch]_vars

\* C4: at most one refresh timer and one countdown timer exist, they are the ones the
\* refs hold and belong to the current instrument and interval, none is left after the
\* chart is removed, and an instrument change leaves the selected interval alone
C4_OneTimerPair ==
  [][/\ Cardinality({t \in timers' : t.kind = "refresh"}) <= 1
     /\ Cardinality({t \in timers' : t.kind = "countdown"}) <= 1
     /\ \A t \in timers' : /\ t.id = (IF t.kind = "refresh" THEN refreshTimer' ELSE countdownTimer')
                           /\ t.interval = selectedInterval'
                           /\ t.scrip = ccScripCode'
     /\ ccPhase' = "unmounted" => timers' = {}
     /\ (ccPhase = "mounted" /\ ccScripCode' # ccScripCode) => selectedInterval' = selectedInterval]_vars

\* a timer pair runs for an instrument selected after the pair of an earlier one ran
C4_Witness ==
  /\ ccPhase = "mounted"
  /\ selectedInterval = "1m"
  /\ ccScripCode = 0
  /\ Cardinality(timers) = 2
  /\ \E t \in timers : t.started > PreClose

\* the reload effect ran in this step
ReloadEffect ==
  /\ ccPhase' = "mounted"
  /\ \/ ccPhase = "new"
     \/ selectedInterval' # selectedInterval
     \/ ccScripCode' # ccScripCode

\* C5: when the scheduler starts for the daily interval, or while the market is closed,
\* no timer exists afterwards and the countdown is null
C5_NoTimers ==
  [][(ReloadEffect /\ (refreshSec(selectedInterval') = 0 \/ ~isMarketOpen(now)))
       => /\ timers' = {}
          /\ refreshTimer' = 0 /\ countdownTimer' = 0
          /\ countdown' = JsNull]_vars

\* an intraday interval is selected, the market is closed, and nothing is scheduled
C5_Witness ==
  /\ ccPhase = "mounted"
  /\ ccScripCode # 0
  /\ selectedInterval = "1m"
  /\ ~isMarketOpen(now)
  /\ timers = {} /\ countdown = JsNull

\* C6: a running scheduler with refresh period P has issued one silent re-fetch per P
\* seconds elapsed, each for its interval; a scheduler started with the market closed
\* has no timers, and without a refresh timer no silent re-fetch is issued
C6_OneFetchPerPeriod ==
  /\ \A t \in timers : isMarketOpen(t.started) /\ refreshSec(t.interval) > 0
  /\ refreshTimer = 0 => silentIssued = 0
  /\ \A t \in timers :
       (t.kind = "refresh" /\ \A u \in timers : u.due > now)
         => silentIssued = (now - t.started) \div refreshSec(t.interval)
  /\ \A f \in candleFetches : ~f.showLoader => refreshSec(f.interval) > 0 /\ f.scrip # 0

\* more than a period after the scheduler started, its one silent re-fetch is out
C6_Witness ==
  /\ ccPhase = "mounted"
  /\ silentIssued = 1
  /\ \E t \in timers : t.kind = "refresh" /\ now > t.started + refreshSec(t.interval)
  /\ \E f \in candleFetches : ~f.showLoader /\ f.interval = selectedInterval

\* C7 (as stated): the countdown value that follows 0 is P
C7_ZeroThenP ==
  [][(countdown = Num(0) /\ countdown' # JsNull /\ countdown' # countdown)
       => countdown' = Num(refreshSec(selectedInterval))]_vars

\* C7 (amended): the countdown starts at P and each tick lowers it by 1 down to 0; the
\* tick after 0 shows P - 1; a tick issues no fetch
C7_Countdown ==
  [][/\ (ReloadEffect /\ timers' # {}) => countdown' = Num(refreshSec(selectedInterval'))
     /\ (\E t \in timers : CountdownFire(t))
          => /\ countdown' = Num(IF countdown.v = 0 THEN refreshSec(selectedInterval) - 1
                                 ELSE countdown.v - 1)
             /\ countdown'.v \in 0..refreshSec(selectedInterval)
             /\ fetchStarted' = fetchStarted /\ candleFetches' = candleFetches]_vars

\* the tick after the countdown showed 0 has happened
C7_Witness ==
  /\ countdown = Num(refreshSec(selectedInterval) - 1)
  /\ \E t \in timers : t.kind = "countdown" /\ now = t.started + refreshSec(t.interval) + 1
                       /\ t.due > now

C12_Teardown ==
  [][(lspPhase = "mounted" /\ lspPhase' = "unmounted" /\ scripCode # 0)
       => /\ ioCalls \in DOMAIN sockets
          /\ lastEmit' = [type |-> "unsubscribe_stock", scrip |-> scripCode, sock |-> ioCalls,
                          connected |-> sockets[ioCalls].state = "connected"]
          /\ sockets' = <<>>
          /\ openSubs' = {}]_vars

\* the widget was removed while connected: the unsubscribe went out on the open socket
C12_Witness ==
  /\ lspPhase = "unmounted"
  /\ lastEmit.type = "unsubscribe_stock"
  /\ lastEmit.scrip = scripCode /\ lastEmit.connected
  /\ sockets = <<>>

\* C13 (as stated): once the transport is connected, every instrument whose subscribe was
\* requested, before or after the connect, has its subscription with the feed
C13_SubscribeNotLost ==
  (mwSocket = "connected" /\ mwIsConnected) => mwRequested \subseteq mwServed

\* C14 (as stated): a response that is ok and carries no candles leaves the chart's error
\* state as it was
C14_EmptyIsNotError ==
  [][(ccPhase = "mounted" /\ \E f \in candleFetches : CandlesFail(f, NoCandles))
       => ccError' = ccError]_vars

\* C15: a silent re-fetch that fails sets the error and leaves the series on the chart
\* as they were
C15_FailureKeepsSeries ==
  [][(ccPhase = "mounted"
      /\ \E f \in candleFetches, msg \in FetchErrors : ~f.showLoader /\ CandlesFail(f, msg))
       => /\ ccError' \in FetchErrors
          /\ chartData' = chartData
          /\ lastUpdated' = lastUpdated]_vars

\* the second fetch's candles are on the chart, the first fetch is still out, and the
\* silent re-fetch has come back with an error
C15_Witness ==
  /\ ccPhase = "mounted"
  /\ fetchStarted = 3 /\ silentIssued = 1
  /\ chartData # JsNull /\ chartData.fetch = 2
  /\ candleFetches # {} /\ \A f \in candleFetches : f.id = 1
  /\ ccError # ""

\* C16 (as stated): the loading flag is set exactly while a fetch with the loader is out
C16_LoadingIffOutstanding ==
  ccPhase = "mounted" => (ccLoading <=> \E f \in candleFetches : f.showLoader)

\* C17 (as stated): every error state of the price widget offers a retry
C17_RetryOffered ==
  (lspPhase = "mounted" /\ Display = "error") => "Retry" \in ErrorControls

\* C18: isMarketOpen() is false on an IST Saturday or Sunday, and on Monday to Friday it
\* is true exactly when the IST minute of the day is from 09:15 to 15:30, both included;
\* the value is a function of the instant alone
C18_MarketHours ==
  mktResult # "none"
    => (mktResult = "true") <=> (/\ clockInput.day \in 1..5
                                 /\ clockInput.sec \div 60 >= 9 * 60 + 15
                                 /\ clockInput.sec \div 60 <= 15 * 60 + 30)

\* the call was made on a Friday at 15:30:59 IST and answered true
C18_Witness ==
  /\ mktResult = "true"
  /\ clockInput.day = 5
  /\ clockInput.sec = 55859

\* the symbol without its last piece, when that is an exchange suffix
StripSuffix(sym) ==
  IF sym # <<>> /\ sym[Len(sym)] \in {".NS", ".BO"} THEN SubSeq(sym, 1, Len(sym) - 1) ELSE sym

\* C19 (as stated): the value is the first search result's scripCode when there is one,
\* else the SCRIP_CODES entry of the upper-cased symbol with its '.NS' / '.BO' suffix
\* taken off, or null
C19_SuffixStripped ==
  lookupResult # [t |-> "pending"]
    => lookupResult =
         IF lookupApi.status # "error" /\ lookupApi.results # <<>>
         THEN lookupApi.results[1].scripCode
         ELSE SCRIP_CODES(StripSuffix(toUpperCase(lookupSymbol)))

\* the pieces of sym in order, but for the first piece equal to tok
WithoutFirst(sym, tok) ==
  LET hits == {i \in DOMAIN sym : sym[i] = tok}
  IN  IF hits = {} THEN sym
      ELSE LET k == CHOOSE i \in hits : \A j \in hits : i <= j
           IN  [i \in 1..(Len(sym) - 1) |-> IF i < k THEN sym[i] ELSE sym[i + 1]]

\* C19 (amended): the value is the first search result's scripCode when there is one,
\* else the SCRIP_CODES entry of the upper-cased symbol with the first '.NS' and then the
\* first '.BO' taken out wherever they stand, or null; the promise always settles with
\* a value
C19_Lookup ==
  lookupResult # [t |-> "pending"]
    => /\ lookupResult =
            IF lookupApi.status # "error" /\ lookupApi.results # <<>>
            THEN lookupApi.results[1].scripCode
            ELSE SCRIP_CODES(WithoutFirst(WithoutFirst(toUpperCase(lookupSymbol), ".NS"), ".BO"))
       /\ lookupResult.t \in {"num", "null"}

\* the search failed and 'tcs.ns' was answered from the table
C19_Witness ==
  /\ lookupApi.status = "error"
  /\ lookupSymbol = <<"tcs", ".ns">>
  /\ lookupResult = Num(11536)

\* C20 (as stated): a stock_update whose ScripCode is not the selected instrument's
\* changes neither the live data nor the price
C20_ForeignTickIgnored ==
  [][(/\ lspPhase = "mounted"
      /\ \E i \in DOMAIN sockets :
           \E data \in ForeignTickInputs(scripCode) : StockUpdate(i, data))
       => liveData' = liveData /\ currentPrice' = currentPrice]_vars

\* the stock_update payloads for instrument s that are null or carry no price
Malformed(s) == {data \in TickInputs(s) : data = JsNull \/ ~Truthy(newPrice(data))}

\* C21 (as stated): a stock_update payload that is null or carries none of the price
\* fields raises nothing in the handler and leaves the price and isConnected as they were
C21_MalformedDropped ==
  [][(/\ lspPhase = "mounted"
      /\ \E i \in DOMAIN sockets : \E data \in Malformed(sockets[i].scrip) : StockUpdate(i, data))
       => /\ uncaught' = uncaught
          /\ currentPrice' = currentPrice
          /\ isConnected' = isConnected]_vars

\* C22 (as stated): while the full fetch that an interval selection issued is still out,
\* no refresh or countdown timer is running
C22_TimersAfterSuccess ==
  [][(/\ \E v \in IntervalInputs : SelectInterval(v)
      /\ \E f \in candleFetches' : f.id = fetchStarted' /\ f.showLoader /\ f.interval = selectedInterval')
       => /\ timers' = {}
          /\ refreshTimer' = 0 /\ countdownTimer' = 0]_vars

\* Retry was pressed in this step: a fetch with the loader went out with the chart
\* mounted and neither the interval nor the instrument changed
RetryStep ==
  /\ ccPhase = "mounted" /\ ccPhase' = "mounted"
  /\ selectedInterval' = selectedInterval /\ ccScripCode' = ccScripCode
  /\ \E f \in candleFetches' \ candleFetches : f.showLoader

\* C23: Retry issues one fetch with the loader for the selected instrument and interval
\* and sets the loading flag; both timers, both refs and the countdown stay as they were
C23_RetryFrame ==
  [][RetryStep
       => /\ candleFetches' = candleFetches \cup
               {[id |-> fetchStarted + 1, scrip |-> ccScripCode, interval |-> selectedInterval,
                 showLoader |-> TRUE]}
          /\ fetchStarted' = fetchStarted + 1
          /\ ccLoading'
          /\ timers' = timers
          /\ refreshTimer' = refreshTimer /\ countdownTimer' = countdownTimer
          /\ countdown' = countdown]_vars

\* Retry was pressed after the market closed, while the scheduler started before the
\* close was running: its fetch is out and the countdown has gone on
C23_Witness ==
  /\ ccPhase = "mounted"
  /\ ~isMarketOpen(now)
  /\ fetchStarted = MaxFetches + 1
  /\ \E f \in candleFetches : f.id = fetchStarted /\ f.showLoader
  /\ ccLoading
  /\ Cardinality(timers) = 2
  /\ countdown # JsNull /\ countdown.v < refreshSec(selectedInterval)
  /\ silentIssued = 0

\* C24 (as stated): a silent re-fetch is issued only within one refresh period of an
\* instant at which the market was open
C24_WindowOnePeriod ==
  [][\A t \in timers :
       RefreshFire(t) => \E u \in (now - refreshSec(t.interval))..now : isMarketOpen(u)]_vars

\* C25 (as stated): a route of the protected group is on display only while an auth
\* token is stored
C25_ProtectedNeedsToken ==
  location \in ProtectedRoutes => isAuthenticated

\* C26 (as stated): once the chart is removed, a candle response that arrives puts
\* nothing on the removed chart's series and changes no state of the view
C26_NoEffectAfterTeardown ==
  [][(ccPhase = "unmounted" /\ \E f \in candleFetches : f \notin candleFetches')
       => /\ chartData' = chartData
          /\ UNCHANGED <<ccLoading, ccError, lastUpdated, marketOpen, countdown, timers>>]_vars

\* C27: the countdown is non-null exactly while the refresh timer and the countdown
\* timer are both running; a non-null countdown lies in 0..P for the refresh period P of
\* the selected interval; the two timers exist together or not at all
C27_CountdownIffTimers ==
  /\ (countdown # JsNull) <=>
       /\ \E t \in timers : t.kind = "refresh" /\ t.id = refreshTimer
       /\ \E t \in timers : t.kind = "countdown" /\ t.id = countdownTimer
  /\ countdown # JsNull => countdown.v \in 0..refreshSec(selectedInterval)
  /\ (refreshTimer # 0) <=> (countdownTimer # 0)
  /\ {t.kind : t \in timers} \in {{}, {"refresh", "countdown"}}

\* the running scheduler's countdown has come down to 0
C27_Witness ==
  /\ ccPhase = "mounted"
  /\ countdown = Num(0)
  /\ refreshTimer # 0 /\ countdownTimer # 0
  /\ Cardinality(timers) = 2

\* C28 (as stated): at most one debounce timer is pending; a search request goes out only
\* for the value the input holds; a timer that fires for fewer than 2 non-blank
\* characters issues no request and clears the suggestions
C28_Debounce ==
  [][/\ Cardinality(timeouts') <= 1
     /\ \A r \in searches' : (\A q \in searches : q.id # r.id) => r.query = searchQuery
     /\ \A t \in timeouts \ timeouts' :
          (sbMounted /\ searchQuery' = searchQuery
           /\ Cardinality({i \in DOMAIN t.value : t.value[i] # " "}) < 2)
            => searches' = searches /\ suggestions' = NoSuggestions]_vars

\* C29 (as stated): the response of a search does not replace the suggestions when a
\* later search has been answered already, and does not open the dropdown when a stock
\* was selected while the search was out
C29_LatestSearchWins ==
  [][\A r \in searches :
       (sbMounted /\ \A q \in searches' : q.id # r.id)
         => /\ (\E k \in (r.id + 1)..searchStarted : \A q \in searches : q.id # k)
                 => suggestions' = suggestions /\ showDropdown' = showDropdown
            /\ r.selected => ~showDropdown']_vars

\* C30 (as stated): no two messages of the list have the same id, and every user message
\* has exactly one bot reply, in the list or still to come
C30_UniqueIds ==
  /\ \A i, j \in DOMAIN messages : i # j => messages[i].id # messages[j].id
  /\ Cardinality(BotMessages) - 1 + Cardinality(replies) = Cardinality(UserMessages)

====
